---- MODULE Spec2Model ----
(***************************************************************************)
(* analytics-pipeline: the MQTT notification listener, its three counters  *)
(* and the shutdown path of the service entry point.                       *)
(*                                                                         *)
(* A Buffer is a sequence of lexical tokens of a JSON text; a decoded      *)
(* value is a tagged JavaScript value.  The decoder below is exact on flat *)
(* documents (a scalar, an empty array, an object of scalar members),      *)
(* which is what every sample payload is.                                  *)
(***************************************************************************)
EXTENDS Integers, Sequences, FiniteSets, TLC

(***************************************************************************)
(* Bounds                                                                  *)
(***************************************************************************)
MaxCount == 2

(***************************************************************************)
(* JavaScript values                                                       *)
(***************************************************************************)
NoFields == << >>

JsUndefined == [type |-> "undefined", val |-> ""]

JsNull == [type |-> "null", val |-> "", fields |-> NoFields]

JsTop(s) == [type |-> s.type, val |-> s.val, fields |-> NoFields]

JsObject(f) == [type |-> "object", val |-> "", fields |-> f]

JsArray == [type |-> "array", val |-> "", fields |-> NoFields]

\* typeof: null and arrays are "object"
TypeOf(v) ==
    IF v.type \in {"null", "array", "object"} THEN "object" ELSE v.type

\* property read, as done by the destructuring assignments
Prop(v, key) ==
    IF v.type = "object" /\ key \in DOMAIN v.fields
    THEN v.fields[key]
    ELSE JsUndefined

(***************************************************************************)
(* Tokens of a payload                                                     *)
(***************************************************************************)
P(x) == [k |-> "punct", v |-> x]
S(x) == [k |-> "str", v |-> x]
N(x) == [k |-> "num", v |-> x]
L(x) == [k |-> "lit", v |-> x]

IsScalarTok(t) == t.k \in {"str", "num"} \/ (t.k = "lit" /\ t.v \in {"null", "true", "false"})

ScalarOf(t) ==
    CASE t.k = "str" -> [type |-> "string", val |-> t.v]
      [] t.k = "num" -> [type |-> "number", val |-> t.v]
      [] t.k = "lit" /\ t.v = "null" -> [type |-> "null", val |-> ""]
      [] OTHER -> [type |-> "boolean", val |-> t.v]

Thrown == [ok |-> FALSE, value |-> JsNull]

\* members of an object from position i on; a repeated key keeps the last value
RECURSIVE ParseMembers(_, _, _)
ParseMembers(toks, i, acc) ==
    IF i + 3 > Len(toks) THEN Thrown
    ELSE IF ~(toks[i].k = "str" /\ toks[i + 1] = P(":") /\ IsScalarTok(toks[i + 2])) THEN Thrown
    ELSE LET acc2 == (toks[i].v :> ScalarOf(toks[i + 2])) @@ acc IN
         IF toks[i + 3] = P("}")
         THEN IF i + 3 = Len(toks) THEN [ok |-> TRUE, value |-> JsObject(acc2)] ELSE Thrown
         ELSE IF toks[i + 3] = P(",") THEN ParseMembers(toks, i + 4, acc2)
         ELSE Thrown

\* JSON.parse(buffer.toString('utf-8')): a value, or a SyntaxError
JSONParse(toks) ==
    IF Len(toks) = 0 THEN Thrown
    ELSE IF Len(toks) = 1
    THEN IF IsScalarTok(toks[1]) THEN [ok |-> TRUE, value |-> JsTop(ScalarOf(toks[1]))] ELSE Thrown
    ELSE IF toks = <<P("["), P("]")>> THEN [ok |-> TRUE, value |-> JsArray]
    ELSE IF toks = <<P("{"), P("}")>> THEN [ok |-> TRUE, value |-> JsObject(NoFields)]
    ELSE IF toks[1] = P("{") THEN ParseMembers(toks, 2, NoFields)
    ELSE Thrown

\* try { return JSON.parse(...) } catch { return null }
parseJsonPayload(buffer) ==
    LET r == JSONParse(buffer) IN IF r.ok THEN r.value ELSE JsNull

(***************************************************************************)
(* Schema validators                                                       *)
(***************************************************************************)
isObjectPayload(value) == TypeOf(value) = "object" /\ value # JsNull

IsString(s) == s.type = "string"

Invalid == [ok |-> FALSE, status |-> ""]

parseUserNotification_AnyPriority(payload) ==
    IF ~isObjectPayload(payload) THEN Invalid
    ELSE LET priority == Prop(payload, "priority")
         IN IF \/ ~IsString(Prop(payload, "notificationId"))
               \/ ~IsString(Prop(payload, "requestId"))
               \/ ~IsString(Prop(payload, "title"))
               \/ ~IsString(Prop(payload, "body"))
               \/ ~IsString(priority)
            THEN Invalid
            ELSE [ok |-> TRUE, status |-> ""]

parseUserNotification_NoTitleCheck(payload) ==
    IF ~isObjectPayload(payload) THEN Invalid
    ELSE LET priority == Prop(payload, "priority")
             validPriority == IsString(priority) /\ priority.val \in {"LOW", "NORMAL", "HIGH"}
         IN IF \/ ~IsString(Prop(payload, "notificationId"))
               \/ ~IsString(Prop(payload, "requestId"))
               \/ ~IsString(Prop(payload, "body"))
               \/ ~validPriority
            THEN Invalid
            ELSE [ok |-> TRUE, status |-> ""]

parseUserNotification(payload) ==
    IF ~isObjectPayload(payload) THEN Invalid
    ELSE LET priority == Prop(payload, "priority")
             validPriority == IsString(priority) /\ priority.val \in {"LOW", "NORMAL", "HIGH"}
         IN IF \/ ~IsString(Prop(payload, "notificationId"))
               \/ ~IsString(Prop(payload, "requestId"))
               \/ ~IsString(Prop(payload, "title"))
               \/ ~IsString(Prop(payload, "body"))
               \/ ~validPriority
            THEN Invalid
            ELSE [ok |-> TRUE, status |-> ""]

parseDeliveryAck_NullReasonAllowed(payload) ==
    IF ~isObjectPayload(payload) THEN Invalid
    ELSE LET status == Prop(payload, "status")
             validStatus == IsString(status) /\ status.val \in {"DELIVERED", "FAILED"}
             failureReason == Prop(payload, "failureReason")
         IN IF \/ ~IsString(Prop(payload, "requestId"))
               \/ ~IsString(Prop(payload, "notificationId"))
               \/ ~IsString(Prop(payload, "acknowledgedAt"))
               \/ ~validStatus
            THEN Invalid
            ELSE IF failureReason.type \notin {"undefined", "null"} /\ ~IsString(failureReason)
            THEN Invalid
            ELSE [ok |-> TRUE, status |-> status.val]

parseDeliveryAck(payload) ==
    IF ~isObjectPayload(payload) THEN Invalid
    ELSE LET status == Prop(payload, "status")
             validStatus == IsString(status) /\ status.val \in {"DELIVERED", "FAILED"}
             failureReason == Prop(payload, "failureReason")
         IN IF \/ ~IsString(Prop(payload, "requestId"))
               \/ ~IsString(Prop(payload, "notificationId"))
               \/ ~IsString(Prop(payload, "acknowledgedAt"))
               \/ ~validStatus
            THEN Invalid
            ELSE IF failureReason.type # "undefined" /\ ~IsString(failureReason)
            THEN Invalid
            ELSE [ok |-> TRUE, status |-> status.val]

(***************************************************************************)
(* Configuration and sample inputs                                         *)
(***************************************************************************)
DefaultUserTopic == "notification/user"

DefaultAckTopic == "notification/ack"

\* values NOTIFICATION_ACK_TOPIC can take: unset, or set to the user topic's name
AckTopicChoices == {DefaultAckTopic, DefaultUserTopic}

\* topics a delivered message can carry
MessageTopics == {DefaultUserTopic, DefaultAckTopic, "notification/other"}

RECURSIVE Members(_)
Members(ms) ==
    IF Len(ms) = 0 THEN << >>
    ELSE <<S(ms[1][1]), P(":"), ms[1][2]>>
         \o (IF Len(ms) = 1 THEN << >> ELSE <<P(",")>> \o Members(Tail(ms)))

Doc(ms) == <<P("{")>> \o Members(ms) \o <<P("}")>>

UserFields == << <<"notificationId", S("n1")>>, <<"requestId", S("r1")>>,
                 <<"title", S("t")>>, <<"body", S("b")>> >>

AckFields == << <<"requestId", S("r1")>>, <<"notificationId", S("n1")>>,
                <<"acknowledgedAt", S("2024-01-01T00:00:00Z")>> >>

UserValid == Doc(UserFields \o << <<"priority", S("HIGH")>> >>)
UserLowPriority == Doc(UserFields \o << <<"priority", S("LOW")>> >>)
UserBadEnum == Doc(UserFields \o << <<"priority", S("high")>> >>)
UserMissingField == Doc(UserFields)
UserWrongType == Doc(<< <<"notificationId", N("7")>>, <<"requestId", S("r1")>>,
                        <<"title", S("t")>>, <<"body", S("b")>>, <<"priority", S("HIGH")>> >>)
AckDelivered == Doc(AckFields \o << <<"status", S("DELIVERED")>> >>)
AckFailed == Doc(AckFields \o << <<"status", S("FAILED")>>, <<"failureReason", S("timeout")>> >>)
AckBadEnum == Doc(AckFields \o << <<"status", S("PENDING")>> >>)
AckNullReason == Doc(AckFields \o << <<"status", S("FAILED")>>, <<"failureReason", L("null")>> >>)
Truncated == SubSeq(UserValid, 1, Len(UserValid) - 1)
Garbage == <<[k |-> "bad", v |-> "%"]>>
LitNull == <<L("null")>>
Num == <<N("42")>>
EmptyArray == <<P("["), P("]")>>

Payloads == {UserValid, UserLowPriority, UserBadEnum, UserMissingField, UserWrongType,
             AckDelivered, AckFailed, AckBadEnum, AckNullReason,
             Truncated, Garbage, LitNull, Num, EmptyArray}

Signals == {"SIGINT", "SIGTERM"}

(***************************************************************************)
(* State                                                                   *)
(***************************************************************************)
VARIABLES
    notificationStats,      \* the three counters
    userNotificationTopic,  \* configured topic names, fixed at start-up
    notificationAckTopic,
    state,                  \* connection state of the MQTT client
    requested,              \* topics of the subscribe issued on this connection
    disconnecting,          \* client.end() has been called
    endMode,                \* how the connection was closed: none, forced, graceful
    armed,                  \* signals whose process.once listener is still installed
    proc,                   \* running, exited, killed, crashed
    exitCode,               \* <<code>> once process.exit(code) ran, << >> before
    console,                \* lines written by the handler that ran last
    brokerAvailable,        \* environment: broker reachable and serving this client
    deliveries,             \* history: counted (topic, payload) pairs -> deliveries
    lastFailure,            \* history: kind of the last failure, none before
    countedSince,           \* history: an event was counted after that failure
    fn,                     \* a function or route under test, "none" in the service run
    input,                  \* its argument
    output                  \* << >> while pending, <<result>> once it returned

vars == <<notificationStats, userNotificationTopic, notificationAckTopic, state,
          requested, disconnecting, endMode, armed, proc, exitCode, console,
          brokerAvailable, deliveries, lastFailure, countedSince, fn, input, output>>

config == <<userNotificationTopic, notificationAckTopic>>

call == <<fn, input, output>>

history == <<deliveries, lastFailure, countedSince>>

process == <<disconnecting, endMode, armed, proc, exitCode>>

ConnectedStates_AlsoConnecting ==
    {"CONNECTING", "CONNECTED", "SUBSCRIBING", "SUBSCRIBED", "SUBFAILED"}

ConnectedStates == {"CONNECTED", "SUBSCRIBING", "SUBSCRIBED", "SUBFAILED"}

States == ConnectedStates \cup {"CONNECTING", "DISCONNECTED", "CLOSING", "CLOSED"}

ZeroStats == [received |-> 0, ackDelivered |-> 0, ackFailed |-> 0]

Log(text, arg) == [level |-> "log", text |-> text, arg |-> arg]

Error(text, arg) == [level |-> "error", text |-> text, arg |-> arg]

(***************************************************************************)
(* Stats mutations                                                         *)
(***************************************************************************)
IncReceived_AddsTwo(stats) == [stats EXCEPT !.received = @ + 2]

IncReceived_Stale(stats) == [stats EXCEPT !.received = ZeroStats.received + 1]

\* notificationStats.received += 1
IncReceived(stats) == [stats EXCEPT !.received = @ + 1]

IncAck_Swapped(stats, status) ==
    IF status = "DELIVERED"
    THEN [stats EXCEPT !.ackFailed = @ + 1]
    ELSE [stats EXCEPT !.ackDelivered = @ + 1]

IncAck_Decrements(stats, status) ==
    IF status = "DELIVERED"
    THEN [stats EXCEPT !.ackDelivered = @ + 1]
    ELSE [stats EXCEPT !.ackFailed = @ - 1]

IncAck_Idempotent(stats, status) ==
    IF status = "DELIVERED"
    THEN [stats EXCEPT !.ackDelivered = 1]
    ELSE [stats EXCEPT !.ackFailed = 1]

\* if (event.status === 'DELIVERED') ackDelivered += 1 else ackFailed += 1
IncAck(stats, status) ==
    IF status = "DELIVERED"
    THEN [stats EXCEPT !.ackDelivered = @ + 1]
    ELSE [stats EXCEPT !.ackFailed = @ + 1]

(***************************************************************************)
(* client.on('message', ...): the result of one run of the handler         *)
(***************************************************************************)
\* the second topic test replaced by a plain else
MessageHandler_ElseAck(stats, userTopic, ackTopic, topic, payload) ==
    LET parsed == parseJsonPayload(payload) IN
    IF parsed = JsNull
    THEN [stats |-> stats, console |-> <<Error("non-JSON MQTT payload", topic)>>]
    ELSE IF topic = userTopic
    THEN IF ~parseUserNotification(parsed).ok
         THEN [stats |-> stats, console |-> <<Error("invalid UserNotification payload", topic)>>]
         ELSE [stats |-> IncReceived(stats), console |-> << >>]
    ELSE LET event == parseDeliveryAck(parsed) IN
         IF ~event.ok
         THEN [stats |-> stats, console |-> <<Error("invalid NotificationDeliveryAck payload", topic)>>]
         ELSE [stats |-> IncAck(stats, event.status), console |-> << >>]

\* the two topic tests in the other order
MessageHandler_AckFirst(stats, userTopic, ackTopic, topic, payload) ==
    LET parsed == parseJsonPayload(payload) IN
    IF parsed = JsNull
    THEN [stats |-> stats, console |-> <<Error("non-JSON MQTT payload", topic)>>]
    ELSE IF topic = ackTopic
    THEN LET event == parseDeliveryAck(parsed) IN
         IF ~event.ok
         THEN [stats |-> stats, console |-> <<Error("invalid NotificationDeliveryAck payload", topic)>>]
         ELSE [stats |-> IncAck(stats, event.status), console |-> << >>]
    ELSE IF topic = userTopic
    THEN IF ~parseUserNotification(parsed).ok
         THEN [stats |-> stats, console |-> <<Error("invalid UserNotification payload", topic)>>]
         ELSE [stats |-> IncReceived(stats), console |-> << >>]
    ELSE [stats |-> stats, console |-> << >>]

MessageHandler(stats, userTopic, ackTopic, topic, payload) ==
    LET parsed == parseJsonPayload(payload) IN
    IF parsed = JsNull
    THEN [stats |-> stats, console |-> <<Error("non-JSON MQTT payload", topic)>>]
    ELSE IF topic = userTopic
    THEN IF ~parseUserNotification(parsed).ok
         THEN [stats |-> stats, console |-> <<Error("invalid UserNotification payload", topic)>>]
         ELSE [stats |-> IncReceived(stats), console |-> << >>]
    ELSE IF topic = ackTopic
    THEN LET event == parseDeliveryAck(parsed) IN
         IF ~event.ok
         THEN [stats |-> stats, console |-> <<Error("invalid NotificationDeliveryAck payload", topic)>>]
         ELSE [stats |-> IncAck(stats, event.status), console |-> << >>]
    ELSE [stats |-> stats, console |-> << >>]

\* what one message adds to the counters when handled alone, from zero
Effect(topic, payload) ==
    MessageHandler(ZeroStats, userNotificationTopic, notificationAckTopic, topic, payload).stats

Counts(topic, payload) == Effect(topic, payload) # ZeroStats

Bump(bag, m) == IF m \in DOMAIN bag THEN [bag EXCEPT ![m] = @ + 1] ELSE (m :> 1) @@ bag

WithinBound(stats) ==
    /\ stats.received <= MaxCount
    /\ stats.ackDelivered <= MaxCount
    /\ stats.ackFailed <= MaxCount

OnMessage(topic, payload) ==
    /\ proc = "running"
    /\ state \in ConnectedStates
    /\ LET r == MessageHandler(notificationStats, userNotificationTopic,
                               notificationAckTopic, topic, payload)
       IN /\ WithinBound(r.stats)
          /\ notificationStats' = r.stats
          /\ console' = r.console
          /\ deliveries' = IF Counts(topic, payload)
                           THEN Bump(deliveries, <<topic, payload>>)
                           ELSE deliveries
          /\ lastFailure' = IF Counts(topic, payload) THEN lastFailure ELSE "message"
          /\ countedSince' = (Counts(topic, payload) /\ lastFailure # "none")
    /\ UNCHANGED <<config, call, state, requested, process, brokerAvailable>>

(***************************************************************************)
(* Connection lifecycle: mqtt.connect(mqttUrl, { reconnectPeriod: 1000 })  *)
(***************************************************************************)
reconnectPeriod == 1000

errorListener_Missing == FALSE

\* client.on('error', ...) is registered; an 'error' event nobody listens
\* to is thrown by the emitter and ends the process
errorListener == TRUE

SubscribeTopics_UserOnly(userTopic, ackTopic) == {userTopic}

\* the topics array handed to client.subscribe in the connect handler
SubscribeTopics(userTopic, ackTopic) == {userTopic, ackTopic}

\* emit('error', e)
EmitError ==
    IF errorListener
    THEN /\ console' = <<Error("MQTT error", "")>>
         /\ proc' = proc
    ELSE /\ console' = << >>
         /\ proc' = "crashed"

\* CONNACK received: 'connect' fires, the handler logs and subscribes
ConnectOk ==
    /\ proc = "running"
    /\ state = "CONNECTING"
    /\ brokerAvailable
    /\ console' = <<Log("connected to MQTT broker", "")>>
    /\ requested' = SubscribeTopics(userNotificationTopic, notificationAckTopic)
    /\ state' = IF requested' = {} THEN "CONNECTED" ELSE "SUBSCRIBING"
    /\ UNCHANGED <<notificationStats, config, call, process, brokerAvailable, history>>

\* the connect attempt fails: 'error', then 'close' arms the reconnect timer
ConnectFail ==
    /\ proc = "running"
    /\ state = "CONNECTING"
    /\ ~brokerAvailable
    /\ EmitError
    /\ state' = "DISCONNECTED"
    /\ lastFailure' = "connect"
    /\ countedSince' = FALSE
    /\ UNCHANGED <<notificationStats, config, call, requested, disconnecting, endMode, armed,
                   exitCode, brokerAvailable, deliveries>>

\* subscribe callback without error
SubscribeOk ==
    /\ proc = "running"
    /\ state = "SUBSCRIBING"
    /\ brokerAvailable
    /\ console' = <<Log("subscribed to MQTT topics", "")>>
    /\ state' = "SUBSCRIBED"
    /\ UNCHANGED <<notificationStats, config, call, requested, process, brokerAvailable, history>>

SubscribeFail_Retries ==
    /\ proc = "running"
    /\ state = "SUBSCRIBING"
    /\ ~brokerAvailable
    /\ console' = <<Error("failed to subscribe MQTT topics", "")>>
    /\ state' = "SUBSCRIBING"
    /\ lastFailure' = "subscribe"
    /\ countedSince' = FALSE
    /\ UNCHANGED <<notificationStats, config, call, requested, process, brokerAvailable, deliveries>>

\* subscribe callback with an error: logged, nothing else
SubscribeFail ==
    /\ proc = "running"
    /\ state = "SUBSCRIBING"
    /\ ~brokerAvailable
    /\ console' = <<Error("failed to subscribe MQTT topics", "")>>
    /\ state' = "SUBFAILED"
    /\ lastFailure' = "subscribe"
    /\ countedSince' = FALSE
    /\ UNCHANGED <<notificationStats, config, call, requested, process, brokerAvailable, deliveries>>

\* the connection drops, with or without an 'error' event before 'close'
ConnectionLost(withError) ==
    /\ proc = "running"
    /\ state \in ConnectedStates
    /\ ~brokerAvailable
    /\ IF withError THEN EmitError ELSE (console' = << >> /\ proc' = proc)
    /\ state' = "DISCONNECTED"
    /\ requested' = {}
    /\ lastFailure' = "drop"
    /\ countedSince' = FALSE
    /\ UNCHANGED <<notificationStats, config, call, disconnecting, endMode, armed, exitCode,
                   brokerAvailable, deliveries>>

Reconnect_GivesUp ==
    /\ proc = "running"
    /\ state = "DISCONNECTED"
    /\ reconnectPeriod > 0
    /\ ~disconnecting
    /\ lastFailure # "connect"
    /\ state' = "CONNECTING"
    /\ console' = << >>
    /\ UNCHANGED <<notificationStats, config, call, requested, process, brokerAvailable, history>>

\* the reconnect timer fires: a new connect attempt
Reconnect ==
    /\ proc = "running"
    /\ state = "DISCONNECTED"
    /\ reconnectPeriod > 0
    /\ ~disconnecting
    /\ state' = "CONNECTING"
    /\ console' = << >>
    /\ UNCHANGED <<notificationStats, config, call, requested, process, brokerAvailable, history>>

\* environment: the broker becomes unavailable, or available again
BrokerChange ==
    /\ proc = "running"
    /\ brokerAvailable' = ~brokerAvailable
    /\ UNCHANGED <<notificationStats, config, call, state, requested, process, console, history>>

(***************************************************************************)
(* Shutdown: process.once('SIGINT' | 'SIGTERM', shutdown)                  *)
(***************************************************************************)
\* first argument of mqttClient.end
ShutdownForce == TRUE

\* argument of process.exit in the end callback
ShutdownExitCode == 0

Exit(code) ==
    /\ proc' = "exited"
    /\ exitCode' = <<code>>

shutdown_ExitsAtOnce ==
    /\ disconnecting' = TRUE
    /\ endMode' = IF ShutdownForce THEN "forced" ELSE "graceful"
    /\ state' = "CLOSING"
    /\ requested' = {}
    /\ Exit(ShutdownExitCode)

\* shutdown(): mqttClient.end(force, cb).  A client that is already
\* disconnecting runs cb at once; otherwise the reconnect timer is cleared
\* and the connection is torn down, with a DISCONNECT packet only if not forced
shutdown ==
    IF disconnecting
    THEN /\ Exit(ShutdownExitCode)
         /\ UNCHANGED <<state, requested, disconnecting, endMode>>
    ELSE /\ disconnecting' = TRUE
         /\ endMode' = IF ShutdownForce THEN "forced" ELSE "graceful"
         /\ state' = "CLOSING"
         /\ requested' = {}
         /\ UNCHANGED <<proc, exitCode>>

\* a signal with its listener installed: the listener is removed and runs
Signal(sig) ==
    /\ proc = "running"
    /\ sig \in armed
    /\ armed' = armed \ {sig}
    /\ shutdown
    /\ console' = << >>
    /\ UNCHANGED <<notificationStats, config, call, brokerAvailable, history>>

\* a signal whose listener was already consumed: default disposition
SignalDefault(sig) ==
    /\ proc = "running"
    /\ sig \notin armed
    /\ proc' = "killed"
    /\ console' = << >>
    /\ UNCHANGED <<notificationStats, config, call, state, requested, disconnecting, endMode,
                   armed, exitCode, brokerAvailable, history>>

\* the connection close completes: the end callback runs process.exit
EndClosed ==
    /\ proc = "running"
    /\ state = "CLOSING"
    /\ state' = "CLOSED"
    /\ Exit(ShutdownExitCode)
    /\ console' = << >>
    /\ UNCHANGED <<notificationStats, config, call, requested, disconnecting, endMode, armed,
                   brokerAvailable, history>>

(***************************************************************************)
(* Specification                                                           *)
(***************************************************************************)
Init ==
    /\ notificationStats = ZeroStats
    /\ userNotificationTopic = DefaultUserTopic
    /\ notificationAckTopic \in AckTopicChoices
    /\ state = "CONNECTING"
    /\ requested = {}
    /\ disconnecting = FALSE
    /\ endMode = "none"
    /\ armed = Signals
    /\ proc = "running"
    /\ exitCode = << >>
    /\ console = << >>
    /\ brokerAvailable \in BOOLEAN
    /\ deliveries = << >>
    /\ lastFailure = "none"
    /\ countedSince = FALSE
    /\ fn = "none"
    /\ input = << >>
    /\ output = << >>

Message == \E topic \in MessageTopics, payload \in Payloads : OnMessage(topic, payload)

Lost == \E withError \in BOOLEAN : ConnectionLost(withError)

Interrupt == \E sig \in Signals : Signal(sig)

Kill == \E sig \in Signals : SignalDefault(sig)

Next ==
    \/ ConnectOk
    \/ ConnectFail
    \/ SubscribeOk
    \/ SubscribeFail
    \/ Lost
    \/ Reconnect
    \/ BrokerChange
    \/ Message
    \/ Interrupt
    \/ Kill
    \/ EndClosed

Spec == Init /\ [][Next]_vars

\* the timers, the broker's replies and the socket close are not delayed forever
FairSpec ==
    /\ Spec
    /\ WF_vars(Reconnect)
    /\ WF_vars(ConnectOk)
    /\ WF_vars(SubscribeOk)
    /\ WF_vars(EndClosed)

TypeOK ==
    /\ notificationStats \in [received : 0..MaxCount, ackDelivered : 0..MaxCount,
                              ackFailed : 0..MaxCount]
    /\ state \in States
    /\ requested \subseteq MessageTopics
    /\ disconnecting \in BOOLEAN
    /\ endMode \in {"none", "forced", "graceful"}
    /\ armed \subseteq Signals
    /\ proc \in {"running", "exited", "killed", "crashed"}
    /\ exitCode \in {<< >>, <<0>>}
    /\ brokerAvailable \in BOOLEAN
    /\ lastFailure \in {"none", "message", "connect", "subscribe", "drop"}
    /\ countedSince \in BOOLEAN

(***************************************************************************)
(* Decoded values handed to the validators                                 *)
(***************************************************************************)
Absent == [type |-> "absent", val |-> ""]

Str(x) == [type |-> "string", val |-> x]

Number7 == [type |-> "number", val |-> "7"]

NullScalar == [type |-> "null", val |-> ""]

\* an object with the members of pairs that are present
MkObject(pairs) ==
    LET present == {i \in 1..Len(pairs) : pairs[i][2] # Absent} IN
    JsObject([k \in {pairs[i][1] : i \in present} |->
                 pairs[CHOOSE i \in present : pairs[i][1] = k][2]])

StringField == {Absent, Str("x"), Number7}

PriorityField == {Absent, Str("LOW"), Str("NORMAL"), Str("HIGH"), Str("low"), Number7}

StatusField == {Absent, Str("DELIVERED"), Str("FAILED"), Str("delivered"), Number7}

ReasonField == {Absent, Str("timeout"), NullScalar, Number7}

ExtraField == {Absent, Str("sms")}

NonObjects == {JsNull, JsArray, JsTop(Str("x")), JsTop(Number7)}

UserCandidates ==
    NonObjects \cup
    {MkObject(<< <<"notificationId", a>>, <<"requestId", b>>, <<"title", c>>, <<"body", d>>,
                 <<"priority", e>>, <<"channel", x>> >>) :
        a \in {Str("x"), Number7}, b \in StringField, c \in StringField, d \in StringField,
        e \in PriorityField, x \in ExtraField}

AckCandidates ==
    NonObjects \cup
    {MkObject(<< <<"requestId", a>>, <<"notificationId", b>>, <<"acknowledgedAt", c>>,
                 <<"status", e>>, <<"failureReason", x>> >>) :
        a \in StringField, b \in StringField, c \in StringField,
        e \in StatusField, x \in ReasonField}

(***************************************************************************)
(* Date strings.  A string is a sequence of one-character strings; a time  *)
(* value is kept in days, the time of day being 00:00:00.000 both when     *)
(* parsing and when printing.                                              *)
(***************************************************************************)
Digits == <<"0", "1", "2", "3", "4", "5", "6", "7", "8", "9">>

IsDigit(c) == \E i \in 1..10 : Digits[i] = c

DigitVal(c) == (CHOOSE i \in 1..10 : Digits[i] = c) - 1

NumberOf(str, from, to) ==
    LET RECURSIVE Acc(_, _)
        Acc(i, n) == IF i > to THEN n ELSE Acc(i + 1, 10 * n + DigitVal(str[i]))
    IN Acc(from, 0)

Pad2(n) == <<Digits[((n \div 10) % 10) + 1], Digits[(n % 10) + 1]>>

Pad4(n) == Pad2(n \div 100) \o Pad2(n % 100)

\* /^\d{4}-\d{2}-\d{2}$/.test(value)
MatchesDateRegex(value) ==
    /\ Len(value) = 10
    /\ \A i \in {1, 2, 3, 4, 6, 7, 9, 10} : IsDigit(value[i])
    /\ value[5] = "-"
    /\ value[8] = "-"

\* day number of the first day of month m of year y, 1970-01-01 being 0
DayOfMonthStart(y, m) ==
    LET yy == IF m <= 2 THEN y - 1 ELSE y
        era == yy \div 400
        yoe == yy - era * 400
        mp == IF m > 2 THEN m - 3 ELSE m + 9
        doy == (153 * mp + 2) \div 5
        doe == yoe * 365 + yoe \div 4 - yoe \div 100 + doy
    IN era * 146097 + doe - 719468

\* new Date(`${value}T00:00:00.000Z`): month 1..12 and day 1..31 are taken,
\* a day past the end of the month runs over into the next month
DateParse(value) ==
    LET y == NumberOf(value, 1, 4)
        m == NumberOf(value, 6, 7)
        d == NumberOf(value, 9, 10)
    IN IF m < 1 \/ m > 12 \/ d < 1 \/ d > 31
       THEN [nan |-> TRUE, time |-> 0]
       ELSE [nan |-> FALSE, time |-> DayOfMonthStart(y, m) + d - 1]

\* parsed.toISOString().slice(0, 10)
ToISODate(time) ==
    LET z == time + 719468
        era == z \div 146097
        doe == z - era * 146097
        yoe == (doe - doe \div 1460 + doe \div 36524 - doe \div 146096) \div 365
        doy == doe - (365 * yoe + yoe \div 4 - yoe \div 100)
        mp == (5 * doy + 2) \div 153
        d == doy - (153 * mp + 2) \div 5 + 1
        m == IF mp < 10 THEN mp + 3 ELSE mp - 9
        y == yoe + era * 400 + (IF m <= 2 THEN 1 ELSE 0)
    IN Pad4(y) \o <<"-">> \o Pad2(m) \o <<"-">> \o Pad2(d)

isValidDateString_NoRoundTrip(value) ==
    IF ~MatchesDateRegex(value) THEN FALSE
    ELSE LET parsed == DateParse(value) IN
         IF parsed.nan THEN FALSE ELSE TRUE

isValidDateString(value) ==
    IF ~MatchesDateRegex(value) THEN FALSE
    ELSE LET parsed == DateParse(value) IN
         IF parsed.nan THEN FALSE ELSE ToISODate(parsed.time) = value

\* a < b as strings: by the first differing character, a proper prefix first
CharCode(c) == IF c = "-" THEN 45 ELSE 48 + DigitVal(c)

RECURSIVE StrGreater(_, _)
StrGreater(a, b) ==
    IF Len(a) = 0 THEN FALSE
    ELSE IF Len(b) = 0 THEN TRUE
    ELSE IF a[1] = b[1] THEN StrGreater(Tail(a), Tail(b))
    ELSE CharCode(a[1]) > CharCode(b[1])

(***************************************************************************)
(* HTTP query surface.  A query parameter is absent, one string, or        *)
(* something else (a repeated parameter arrives as an array).              *)
(***************************************************************************)
QAbsent == [kind |-> "absent", s |-> << >>]

QArray == [kind |-> "array", s |-> << >>]

QString(x) == [kind |-> "string", s |-> x]

Null == [null |-> TRUE, s |-> << >>]

readDateQueryParam(query, name) ==
    LET value == query[name] IN
    IF value.kind # "string" \/ ~isValidDateString(value.s) THEN Null
    ELSE [null |-> FALSE, s |-> value.s]

\* !x for string | null
Falsy(x) == x.null \/ Len(x.s) = 0

trendIntervals == {"DAY", "WEEK", "MONTH"}

NoBody == [date |-> << >>, from |-> << >>, to |-> << >>, interval |-> ""]

BadRequest(message) == [status |-> 400, error |-> message, body |-> NoBody]

Ok(body) == [status |-> 200, error |-> "", body |-> body]

FromAfterTo_OrEqual(from, to) == StrGreater(from, to) \/ from = to

\* from > to
FromAfterTo(from, to) == StrGreater(from, to)

\* app.get('/analytics/orders/trend', ...)
TrendHandler(query) ==
    LET from == readDateQueryParam(query, "from")
        to == readDateQueryParam(query, "to")
        interval == IF query.interval.kind = "string" THEN query.interval.s ELSE ""
    IN IF Falsy(from) \/ Falsy(to) \/ interval \notin trendIntervals
       THEN BadRequest("Invalid query parameters")
       ELSE IF FromAfterTo(from.s, to.s)
       THEN BadRequest("Invalid query parameters")
       ELSE Ok([NoBody EXCEPT !.from = from.s, !.to = to.s, !.interval = interval])

\* app.get('/analytics/orders/daily-summary', ...) of the service and of src/index.ts
DailySummaryHandler(query) ==
    LET date == IF query.date.kind = "string" THEN query.date.s ELSE << >> IN
    IF ~isValidDateString(date)
    THEN BadRequest("Invalid or missing date query parameter")
    ELSE Ok([NoBody EXCEPT !.date = date])

\* the same route in the plain JavaScript entry point: no validation, today's
\* date when the parameter is not a string
DailySummaryHandlerJs(query, today) ==
    LET date == IF query.date.kind = "string" THEN query.date.s ELSE today IN
    Ok([NoBody EXCEPT !.date = date])

Chars(a, b, c, d) == <<a, b, c, d>>

Years == {Chars("1", "9", "0", "0"), Chars("2", "0", "0", "0"),
          Chars("2", "0", "2", "3"), Chars("2", "0", "2", "4")}

Months == {<<"0", "0">>, <<"0", "1">>, <<"0", "2">>, <<"0", "3">>, <<"0", "4">>,
           <<"1", "2">>, <<"1", "3">>}

Days == {<<"0", "0">>, <<"0", "1">>, <<"1", "5">>, <<"2", "8">>, <<"2", "9">>,
         <<"3", "0">>, <<"3", "1">>, <<"3", "2">>}

DateOf(y, m, d) == y \o <<"-">> \o m \o <<"-">> \o d

Date20230301 == DateOf(Chars("2", "0", "2", "3"), <<"0", "3">>, <<"0", "1">>)

Date20230315 == DateOf(Chars("2", "0", "2", "3"), <<"0", "3">>, <<"1", "5">>)

Date20230230 == DateOf(Chars("2", "0", "2", "3"), <<"0", "2">>, <<"3", "0">>)

Date20231301 == DateOf(Chars("2", "0", "2", "3"), <<"1", "3">>, <<"0", "1">>)

Date20240229 == DateOf(Chars("2", "0", "2", "4"), <<"0", "2">>, <<"2", "9">>)

Malformed == {<< >>,
              <<"2", "0", "2", "3", "-", "3", "-", "1", "5">>,
              <<"2", "0", "2", "3", "0", "3", "1", "5">>,
              <<"2", "0", "2", "3", "/", "0", "3", "/", "1", "5">>,
              Date20230315 \o <<"x">>,
              <<"x">> \o Date20230315,
              <<"2", "0", "2", "3", "-", "0", "3", "-", "1", "a">>,
              <<"a", "b", "c", "d", "-", "e", "f", "-", "g", "h">>}

DateStrings == Malformed \cup {DateOf(y, m, d) : y \in Years, m \in Months, d \in Days}

DateParams == {QAbsent, QArray} \cup {QString(x) : x \in DateStrings}

TrendDateParams ==
    {QAbsent, QArray} \cup
    {QString(x) : x \in {Date20230301, Date20230315, Date20230230, Date20231301,
                         Date20240229, << >>, <<"2", "0", "2", "3", "-", "3", "-", "1", "5">>}}

IntervalParams ==
    {[kind |-> "absent", s |-> ""], [kind |-> "array", s |-> ""]} \cup
    {[kind |-> "string", s |-> x] : x \in {"DAY", "WEEK", "MONTH", "HOUR", "day", ""}}

\* the three files that serve /analytics/orders/daily-summary
EntryPoints == {"src/unnamed/part_002", "src/src/index.ts", "src/unnamed/part_000"}

Todays == {Date20230315, Date20240229}

(***************************************************************************)
(* Functions and routes applied to one input                               *)
(***************************************************************************)
CallUserValidator ==
    /\ fn = "parseUserNotification"
    /\ output = << >>
    /\ output' = <<parseUserNotification(input)>>
    /\ UNCHANGED <<notificationStats, config, state, requested, process, console,
                   brokerAvailable, history, fn, input>>

CallAckValidator ==
    /\ fn = "parseDeliveryAck"
    /\ output = << >>
    /\ output' = <<parseDeliveryAck(input)>>
    /\ UNCHANGED <<notificationStats, config, state, requested, process, console,
                   brokerAvailable, history, fn, input>>

CallDateValidator ==
    /\ fn = "isValidDateString"
    /\ output = << >>
    /\ output' = <<isValidDateString(input)>>
    /\ UNCHANGED <<notificationStats, config, state, requested, process, console,
                   brokerAvailable, history, fn, input>>

GetTrend ==
    /\ fn = "GET /analytics/orders/trend"
    /\ output = << >>
    /\ output' = <<TrendHandler(input)>>
    /\ UNCHANGED <<notificationStats, config, state, requested, process, console,
                   brokerAvailable, history, fn, input>>

GetDailySummary ==
    /\ fn = "GET /analytics/orders/daily-summary"
    /\ output = << >>
    /\ input.entry \in {"src/unnamed/part_002", "src/src/index.ts"}
    /\ output' = <<DailySummaryHandler(input)>>
    /\ UNCHANGED <<notificationStats, config, state, requested, process, console,
                   brokerAvailable, history, fn, input>>

GetDailySummaryJs ==
    /\ fn = "GET /analytics/orders/daily-summary"
    /\ output = << >>
    /\ input.entry = "src/unnamed/part_000"
    /\ \E today \in Todays : output' = <<DailySummaryHandlerJs(input, today)>>
    /\ UNCHANGED <<notificationStats, config, state, requested, process, console,
                   brokerAvailable, history, fn, input>>

CallInit ==
    /\ notificationStats = ZeroStats
    /\ userNotificationTopic = DefaultUserTopic
    /\ notificationAckTopic = DefaultAckTopic
    /\ state = "CONNECTING"
    /\ requested = {}
    /\ disconnecting = FALSE
    /\ endMode = "none"
    /\ armed = Signals
    /\ proc = "running"
    /\ exitCode = << >>
    /\ console = << >>
    /\ brokerAvailable = FALSE
    /\ deliveries = << >>
    /\ lastFailure = "none"
    /\ countedSince = FALSE
    /\ output = << >>
    /\ \/ fn = "parseUserNotification" /\ input \in UserCandidates
       \/ fn = "parseDeliveryAck" /\ input \in AckCandidates
       \/ fn = "isValidDateString" /\ input \in DateStrings
       \/ fn = "GET /analytics/orders/trend"
             /\ input \in [from : TrendDateParams, to : TrendDateParams, interval : IntervalParams]
       \/ fn = "GET /analytics/orders/daily-summary"
             /\ input \in [entry : EntryPoints, date : DateParams]

CallNext ==
    \/ CallUserValidator
    \/ CallAckValidator
    \/ CallDateValidator
    \/ GetTrend
    \/ GetDailySummary
    \/ GetDailySummaryJs

CallSpec == CallInit /\ [][CallNext]_vars

Returned(name) == fn = name /\ output # << >>

(***************************************************************************)
(* Vocabulary of the properties                                            *)
(***************************************************************************)
\* the sample payloads by what they are on the wire
ValidUserEvents == {UserValid, UserLowPriority}

ValidDeliveredAcks == {AckDelivered}

ValidFailedAcks == {AckFailed}

NotJson == {Truncated, Garbage}

NotUserEvents == Payloads \ (ValidUserEvents \cup NotJson)

NotAckEvents == Payloads \ (ValidDeliveredAcks \cup ValidFailedAcks \cup NotJson)

FailureTexts == {"non-JSON MQTT payload", "invalid UserNotification payload",
                 "invalid NotificationDeliveryAck payload"}

Total(stats) == stats.received + stats.ackDelivered + stats.ackFailed

Plus(a, b) == [received |-> a.received + b.received,
               ackDelivered |-> a.ackDelivered + b.ackDelivered,
               ackFailed |-> a.ackFailed + b.ackFailed]

Times(n, a) == [received |-> n * a.received,
                ackDelivered |-> n * a.ackDelivered,
                ackFailed |-> n * a.ackFailed]

\* sum over the counted messages of weight(m) times the message's own effect
RECURSIVE SumEffects(_, _)
SumEffects(ms, once) ==
    IF ms = {} THEN ZeroStats
    ELSE LET m == CHOOSE x \in ms : TRUE IN
         Plus(Times(IF once THEN 1 ELSE deliveries[m], Effect(m[1], m[2])),
              SumEffects(ms \ {m}, once))

(***************************************************************************)
(* C1: handling a valid UserNotificationEvent delivered on the user topic  *)
(* increases received by exactly 1 and leaves both ack counters unchanged. *)
(***************************************************************************)
C1_ValidUserCountsOnce ==
    [][\A p \in ValidUserEvents :
          OnMessage(userNotificationTopic, p) =>
              /\ notificationStats'.received = notificationStats.received + 1
              /\ notificationStats'.ackDelivered = notificationStats.ackDelivered
              /\ notificationStats'.ackFailed = notificationStats.ackFailed]_vars

C1_Witness ==
    /\ <<userNotificationTopic, UserValid>> \in DOMAIN deliveries
    /\ notificationStats.received >= 1

(***************************************************************************)
(* C2 as claimed: on the acknowledgement topic, whatever its name, a valid *)
(* DELIVERED ack adds 1 to ackDelivered and a valid FAILED ack adds 1 to   *)
(* ackFailed, the other two counters unchanged.                            *)
(***************************************************************************)
AckCounted(p) ==
    /\ notificationStats'.received = notificationStats.received
    /\ notificationStats'.ackDelivered =
           notificationStats.ackDelivered + (IF p \in ValidDeliveredAcks THEN 1 ELSE 0)
    /\ notificationStats'.ackFailed =
           notificationStats.ackFailed + (IF p \in ValidFailedAcks THEN 1 ELSE 0)

C2_Original ==
    [][\A p \in ValidDeliveredAcks \cup ValidFailedAcks :
          OnMessage(notificationAckTopic, p) => AckCounted(p)]_vars

(***************************************************************************)
(* C2 amended: the same, when the acknowledgement topic's name differs     *)
(* from the user-notification topic's name.                                *)
(***************************************************************************)
C2_AckCountsOnce ==
    [][\A p \in ValidDeliveredAcks \cup ValidFailedAcks :
          (notificationAckTopic # userNotificationTopic /\ OnMessage(notificationAckTopic, p))
              => AckCounted(p)]_vars

C2_Witness ==
    /\ notificationAckTopic # userNotificationTopic
    /\ notificationStats.ackDelivered >= 1
    /\ notificationStats.ackFailed >= 1
    /\ notificationStats.received = 0

(***************************************************************************)
(* C3: a message on a configured topic whose payload is not JSON or does   *)
(* not validate leaves the three counters unchanged, is logged as an error *)
(* that names the topic, and leaves nothing behind to retry: no other part *)
(* of the state changes.                                                   *)
(***************************************************************************)
Rejected(topic, p) ==
    \/ p \in NotJson
    \/ topic = userNotificationTopic /\ p \in NotUserEvents
    \/ topic # userNotificationTopic /\ topic = notificationAckTopic /\ p \in NotAckEvents

C3_RejectedLeavesCounters ==
    [][\A topic \in {userNotificationTopic, notificationAckTopic}, p \in Payloads :
          (Rejected(topic, p) /\ OnMessage(topic, p)) =>
              /\ notificationStats' = notificationStats
              /\ Len(console') = 1
              /\ console'[1].level = "error"
              /\ console'[1].text \in FailureTexts
              /\ console'[1].arg = topic
              /\ UNCHANGED <<state, requested, process, deliveries>>]_vars

C3_Witness ==
    /\ Len(console) = 1
    /\ console[1].level = "error"
    /\ console[1].text = "invalid UserNotification payload"
    /\ console[1].arg = userNotificationTopic
    /\ notificationStats.received >= 1

(***************************************************************************)
(* C4: in every interleaving of handler runs the counters equal the sum of *)
(* what each handled event adds when applied alone: no increment is lost.  *)
(***************************************************************************)
C4_NoLostUpdate ==
    notificationStats = SumEffects(DOMAIN deliveries, FALSE)

C4_Witness ==
    /\ notificationStats.received >= 2
    /\ notificationStats.ackDelivered >= 1
    /\ notificationStats.ackFailed >= 1

(***************************************************************************)
(* C5: the counters start at zero, are natural numbers in every state, and *)
(* no step of any kind decreases one of them.                              *)
(***************************************************************************)
C5_CountersMonotone ==
    /\ notificationStats = ZeroStats
    /\ [](/\ notificationStats.received \in Nat
          /\ notificationStats.ackDelivered \in Nat
          /\ notificationStats.ackFailed \in Nat)
    /\ [][/\ notificationStats'.received >= notificationStats.received
          /\ notificationStats'.ackDelivered >= notificationStats.ackDelivered
          /\ notificationStats'.ackFailed >= notificationStats.ackFailed]_vars

C5_Witness ==
    /\ state = "DISCONNECTED"
    /\ notificationStats.received >= 1
    /\ notificationStats.ackFailed >= 1

(***************************************************************************)
(* C6 as claimed: an event delivered more than once is counted once, so    *)
(* the counters equal the sum over the distinct events counted.            *)
(***************************************************************************)
C6_Original ==
    notificationStats = SumEffects(DOMAIN deliveries, TRUE)

(***************************************************************************)
(* C6 amended: counting is per delivery: handling a payload that was       *)
(* already counted on that topic adds 1 to one counter again.              *)
(***************************************************************************)
C6_RedeliveryCountsAgain ==
    [][\A m \in DOMAIN deliveries :
          OnMessage(m[1], m[2]) =>
              /\ Total(notificationStats') = Total(notificationStats) + 1
              /\ deliveries'[m] = deliveries[m] + 1]_vars

C6_Witness ==
    \E m \in DOMAIN deliveries :
        /\ deliveries[m] >= 2
        /\ Total(notificationStats) >= 2

(***************************************************************************)
(* C7: after a drop the client goes back to CONNECTING, every connection   *)
(* that comes up has a subscribe for both configured topics issued in the  *)
(* connect handler, and no message is handled on a connection before that. *)
(***************************************************************************)
BothTopics == {userNotificationTopic, notificationAckTopic}

SignalReceived == armed # Signals

C7_ResubscribeOnReconnect ==
    /\ (state = "DISCONNECTED") ~> (state = "CONNECTING" \/ SignalReceived)
    /\ [][state = "DISCONNECTED" => state' \in {"DISCONNECTED", "CONNECTING", "CLOSING"}]_vars
    /\ [][(state = "CONNECTING" /\ state' \in ConnectedStates)
             => (state' = "SUBSCRIBING" /\ requested' = BothTopics)]_vars
    /\ [][Message => requested = BothTopics]_vars

C7_Witness ==
    /\ lastFailure = "drop"
    /\ countedSince
    /\ state = "SUBSCRIBED"
    /\ requested = BothTopics

(***************************************************************************)
(* C8 as claimed: a disconnected client always tries again and, once the   *)
(* broker stays available, reaches SUBSCRIBED (unless a signal arrived).   *)
(***************************************************************************)
C8_Original ==
    /\ (state = "DISCONNECTED") ~> (state = "CONNECTING" \/ SignalReceived)
    /\ (<>[]brokerAvailable) =>
           [](state = "DISCONNECTED" => <>(state = "SUBSCRIBED" \/ SignalReceived))

(***************************************************************************)
(* C8 amended: a disconnected client always tries again, however many      *)
(* attempts failed before, and reaches SUBSCRIBED if the broker is         *)
(* available from that disconnected state on (unless a signal arrived).    *)
(***************************************************************************)
C8_ReconnectNeverGivesUp ==
    /\ (state = "DISCONNECTED") ~> (state = "CONNECTING" \/ SignalReceived)
    /\ []((state = "DISCONNECTED" /\ []brokerAvailable)
             => <>(state = "SUBSCRIBED" \/ SignalReceived))

C8_Witness ==
    /\ state = "SUBSCRIBED"
    /\ lastFailure = "connect"
    /\ ~SignalReceived

(***************************************************************************)
(* C9: without a termination signal the process is running whatever errors *)
(* and bad messages came before, and a valid message that follows a        *)
(* failure is handled and counted.                                         *)
(***************************************************************************)
C9_FailuresAreNotFatal ==
    /\ [](~SignalReceived => proc = "running")
    /\ []((proc = "running" /\ state \in ConnectedStates
              /\ notificationStats.received < MaxCount)
             => ENABLED OnMessage(userNotificationTopic, UserValid))
    /\ [][\A p \in ValidUserEvents :
             (lastFailure # "none" /\ OnMessage(userNotificationTopic, p))
                 => (Total(notificationStats') = Total(notificationStats) + 1 /\ countedSince')]_vars

C9_Witness ==
    /\ lastFailure = "message"
    /\ countedSince
    /\ ~SignalReceived
    /\ proc = "running"

(***************************************************************************)
(* C10 as claimed: the process exits through the shutdown path only after  *)
(* a graceful close that notified the broker has completed, with code 0.   *)
(***************************************************************************)
C10_Original ==
    proc = "exited" => (endMode = "graceful" /\ state = "CLOSED" /\ exitCode = <<0>>)

(***************************************************************************)
(* C10 amended: the first signal starts a forced close (no notification to *)
(* the broker); the process exits with code 0, after the close completes   *)
(* or at once when the other signal arrives during the close; after a      *)
(* signal the process eventually ends.                                     *)
(***************************************************************************)
C10_ShutdownClosesThenExits ==
    /\ [](proc = "exited" =>
             /\ exitCode = <<0>>
             /\ disconnecting
             /\ endMode = "forced"
             /\ (state = "CLOSED" \/ armed = {}))
    /\ [][(Interrupt /\ ~disconnecting) => (state' = "CLOSING" /\ proc' = "running")]_vars
    /\ SignalReceived ~> (proc # "running")

C10_Witness ==
    /\ proc = "exited"
    /\ state = "CLOSED"
    /\ exitCode = <<0>>
    /\ armed = {"SIGTERM"}

(***************************************************************************)
(* C11 as claimed: a message whose topic is neither configured name        *)
(* changes no counter and logs nothing, whatever its payload.              *)
(***************************************************************************)
OtherTopics == MessageTopics \ BothTopics

C11_Original ==
    [][\A topic \in OtherTopics, p \in Payloads :
          OnMessage(topic, p) => (notificationStats' = notificationStats /\ console' = << >>)]_vars

(***************************************************************************)
(* C11 amended: routing is by equality with the two configured names; a    *)
(* message on another topic never changes a counter, and is ignored        *)
(* silently when its payload decodes to a non-null JSON value; a payload   *)
(* that does not is logged as non-JSON first, because decoding comes       *)
(* before routing.                                                         *)
(***************************************************************************)
DecodesToNonNull == Payloads \ (NotJson \cup {LitNull})

C11_UnroutedNeverCounted ==
    [][\A topic \in OtherTopics, p \in Payloads :
          OnMessage(topic, p) =>
              /\ notificationStats' = notificationStats
              /\ p \in DecodesToNonNull => console' = << >>
              /\ p \notin DecodesToNonNull
                    => console' = <<Error("non-JSON MQTT payload", topic)>>]_vars

C11_Witness ==
    /\ console = <<Error("non-JSON MQTT payload", "notification/other")>>
    /\ "notification/other" \in OtherTopics
    /\ lastFailure = "message"

C18_SubscribeFailureNotRetried ==
    /\ [][SubscribeFail =>
             /\ console' = <<Error("failed to subscribe MQTT topics", "")>>
             /\ proc' = "running"
             /\ state' = "SUBFAILED"
             /\ requested' = requested]_vars
    /\ [][state = "SUBFAILED" => state' \in {"SUBFAILED", "DISCONNECTED", "CLOSING"}]_vars
    /\ [][(requested' # requested /\ requested' # {}) =>
             /\ state = "CONNECTING"
             /\ requested = {}
             /\ requested' = BothTopics]_vars

C18_Witness ==
    /\ state = "SUBFAILED"
    /\ console = <<Error("failed to subscribe MQTT topics", "")>>
    /\ proc = "running"
    /\ requested = BothTopics

(***************************************************************************)
(* C19: a message on a configured topic is logged as non-JSON exactly when *)
(* its bytes are not a well-formed JSON document; the JSON literal null is *)
(* well formed.                                                            *)
(***************************************************************************)
C19_DecodeFailureIffNotJson ==
    [][\A topic \in BothTopics, p \in Payloads :
          OnMessage(topic, p) =>
              ((console' = <<Error("non-JSON MQTT payload", topic)>>) <=> (p \in NotJson))]_vars

(***************************************************************************)
(* C20: with both topic names equal no ack counter ever changes and a      *)
(* valid ack on that topic is rejected as an invalid UserNotification; in  *)
(* every configuration one message changes at most one counter, by 1.      *)
(***************************************************************************)
Changed(field) == IF notificationStats'[field] # notificationStats[field] THEN 1 ELSE 0

C20_OneBranchPerMessage ==
    /\ [](notificationAckTopic = userNotificationTopic
             => (notificationStats.ackDelivered = 0 /\ notificationStats.ackFailed = 0))
    /\ [][\A p \in ValidDeliveredAcks \cup ValidFailedAcks :
             (notificationAckTopic = userNotificationTopic /\ OnMessage(notificationAckTopic, p))
                 => /\ console' = <<Error("invalid UserNotification payload", notificationAckTopic)>>
                    /\ notificationStats' = notificationStats]_vars
    /\ [][/\ Changed("received") + Changed("ackDelivered") + Changed("ackFailed") <= 1
          /\ Total(notificationStats') - Total(notificationStats) \in {0, 1}
          /\ Len(console') <= 1]_vars

C20_Witness ==
    /\ notificationAckTopic = userNotificationTopic
    /\ console = <<Error("invalid UserNotification payload", notificationAckTopic)>>
    /\ notificationStats.received >= 1

(***************************************************************************)
(* C12 as claimed: parseUserNotification accepts exactly the objects that  *)
(* have the five required members, correctly typed, and no other member.   *)
(***************************************************************************)
UserMembers == {"notificationId", "requestId", "title", "body", "priority"}

HasUserMembers(v) ==
    /\ v.type = "object"
    /\ UserMembers \subseteq DOMAIN v.fields
    /\ \A k \in UserMembers : v.fields[k].type = "string"
    /\ v.fields["priority"].val \in {"LOW", "NORMAL", "HIGH"}

C12_Original ==
    Returned("parseUserNotification") =>
        (output[1].ok <=> (HasUserMembers(input) /\ DOMAIN input.fields = UserMembers))

(***************************************************************************)
(* C12 amended: parseUserNotification accepts exactly the non-null objects *)
(* in which the five required members are present and correctly typed;     *)
(* members beyond the five do not make the event invalid.                  *)
(***************************************************************************)
C12_UserValidatorAccepts ==
    Returned("parseUserNotification") => (output[1].ok <=> HasUserMembers(input))

C12_Witness ==
    /\ Returned("parseUserNotification")
    /\ output[1].ok
    /\ input.type = "object"
    /\ "channel" \in DOMAIN input.fields

(***************************************************************************)
(* C13: parseDeliveryAck accepts exactly the values whose requestId,       *)
(* notificationId and acknowledgedAt are strings, whose status is          *)
(* DELIVERED or FAILED, and whose failureReason is absent or a string,     *)
(* whatever the status; it returns that status.                            *)
(***************************************************************************)
HasAckMembers(v) ==
    /\ v.type = "object"
    /\ {"requestId", "notificationId", "acknowledgedAt", "status"} \subseteq DOMAIN v.fields
    /\ \A k \in {"requestId", "notificationId", "acknowledgedAt", "status"} :
           v.fields[k].type = "string"
    /\ v.fields["status"].val \in {"DELIVERED", "FAILED"}
    /\ "failureReason" \in DOMAIN v.fields => v.fields["failureReason"].type = "string"

C13_AckValidatorAccepts ==
    Returned("parseDeliveryAck") =>
        /\ output[1].ok <=> HasAckMembers(input)
        /\ output[1].ok => output[1].status = input.fields["status"].val

C13_Witness ==
    /\ Returned("parseDeliveryAck")
    /\ output[1].ok
    /\ output[1].status = "DELIVERED"
    /\ "failureReason" \in DOMAIN input.fields

(***************************************************************************)
(* C14: isValidDateString is true exactly for the strings of four, two and *)
(* two digits separated by hyphens that name a day of the calendar.        *)
(***************************************************************************)
IsLeapYear(y) == (y % 4 = 0 /\ y % 100 # 0) \/ y % 400 = 0

DaysInMonth(y, m) ==
    IF m = 2 THEN (IF IsLeapYear(y) THEN 29 ELSE 28)
    ELSE IF m \in {4, 6, 9, 11} THEN 30 ELSE 31

HasDateForm(str) ==
    /\ Len(str) = 10
    /\ \A i \in 1..10 : IF i \in {5, 8} THEN str[i] = "-" ELSE IsDigit(str[i])

IsCalendarDate(str) ==
    /\ HasDateForm(str)
    /\ NumberOf(str, 6, 7) \in 1..12
    /\ NumberOf(str, 9, 10) \in 1..DaysInMonth(NumberOf(str, 1, 4), NumberOf(str, 6, 7))

C14_DateStringValidity ==
    Returned("isValidDateString") =>
        /\ output[1] <=> IsCalendarDate(input)
        /\ input \in {<< >>, Date20230230, Date20231301} => ~output[1]
        /\ input = Date20230315 => output[1]

C14_Witness ==
    /\ Returned("isValidDateString")
    /\ input = Date20230230
    /\ output[1] = FALSE

(***************************************************************************)
(* C15: the trend route answers 200, echoing from, to and interval,        *)
(* exactly when from and to are valid date strings, interval is DAY, WEEK  *)
(* or MONTH and from is not after to; otherwise 400 with the fixed error.  *)
(***************************************************************************)
DayKey(str) ==
    NumberOf(str, 1, 4) * 10000 + NumberOf(str, 6, 7) * 100 + NumberOf(str, 9, 10)

IsDateParam(q) == q.kind = "string" /\ IsCalendarDate(q.s)

TrendAcceptable(query) ==
    /\ IsDateParam(query.from)
    /\ IsDateParam(query.to)
    /\ query.interval.kind = "string"
    /\ query.interval.s \in {"DAY", "WEEK", "MONTH"}
    /\ DayKey(query.from.s) <= DayKey(query.to.s)

C15_TrendValidation ==
    Returned("GET /analytics/orders/trend") =>
        IF TrendAcceptable(input)
        THEN /\ output[1].status = 200
             /\ output[1].body.from = input.from.s
             /\ output[1].body.to = input.to.s
             /\ output[1].body.interval = input.interval.s
        ELSE /\ output[1].status = 400
             /\ output[1].error = "Invalid query parameters"

C15_Witness ==
    /\ Returned("GET /analytics/orders/trend")
    /\ output[1].status = 200
    /\ input.from.s = Date20230315
    /\ input.to.s = Date20230315
    /\ output[1].body.interval = "WEEK"

(***************************************************************************)
(* C16: in every entry point the daily-summary route answers 400 with the  *)
(* fixed error unless date is one valid date string, and 200 echoing date  *)
(* when it is.                                                             *)
(***************************************************************************)
C16_DailySummaryValidation ==
    Returned("GET /analytics/orders/daily-summary") =>
        IF IsDateParam(input.date)
        THEN /\ output[1].status = 200
             /\ output[1].body.date = input.date.s
        ELSE /\ output[1].status = 400
             /\ output[1].error = "Invalid or missing date query parameter"

\* the same, for the two TypeScript entry points only
C16_TypedEntryPoints ==
    (Returned("GET /analytics/orders/daily-summary") /\ input.entry # "src/unnamed/part_000") =>
        IF IsDateParam(input.date)
        THEN /\ output[1].status = 200
             /\ output[1].body.date = input.date.s
        ELSE /\ output[1].status = 400
             /\ output[1].error = "Invalid or missing date query parameter"

====
